---- MODULE Spec2Model ----
\* EMV PAN read of the PN532 component (pn532_mifare_plus.cpp): the APDU
\* exchange, the BER-TLV search, the track parsers, the PDOL synthesizer and
\* the orchestrator read_mifare_plus_bytes_ with its caller
\* read_mifare_plus_tag_.
EXTENDS Integers, Sequences, FiniteSets, TLC

\* ------------------------------------------------------------------------
\* Bytes and buffers.  A std::vector<uint8_t> is a sequence of 0..255; C++
\* index i is TLA+ index i+1.
\* ------------------------------------------------------------------------

\* Reading ber[i]: inside the buffer the byte, outside it whatever the
\* memory holds (junk).
At(buf, i, junk) ==
  IF i >= 0 /\ i < Len(buf) THEN buf[i + 1] ELSE junk

\* The vector range constructor {begin + from, begin + to}.
Slice(buf, from, to) ==
  IF to <= from THEN << >> ELSE SubSeq(buf, from + 1, to)

\* Tag numbers of nfc.h used by the read.
EMV_TAG_AID == 79
EMV_TAG_PDOL == 40760
EMV_TAG_TRACK2 == 87
EMV_TAG_TRACK1 == 86
EMV_TAG_PAN == 90
EMV_TAG_COMMAND == 131
EMV_TAG_AFL == 148

\* ------------------------------------------------------------------------
\* Track-data parsers (lines 12-90).
\* ------------------------------------------------------------------------

\* The scan loop of parse_nibbles (lines 16-26): the final pos and result.
RECURSIVE NibbleScan(_, _, _, _)
NibbleScan(data, terminator, pos, result) ==
  IF ~(pos < Len(data)) THEN [pos |-> pos, result |-> result]
  ELSE LET hi_nibble == data[pos + 1] \div 16
           lo_nibble == data[pos + 1] % 16
       IN IF hi_nibble = terminator THEN [pos |-> pos, result |-> result]
          ELSE IF lo_nibble = terminator
               THEN [pos |-> pos, result |-> Append(result, hi_nibble)]
               ELSE NibbleScan(data, terminator, (pos + 1) % 256,
                               Append(Append(result, hi_nibble), lo_nibble))

parse_nibbles(data, terminator) ==
  LET s == NibbleScan(data, terminator, 0, << >>)
  IN IF s.pos > 10 \/ s.pos < 3 THEN << >> ELSE s.result

parse_track2(data) == parse_nibbles(data, 13)

parse_pan(data) == parse_nibbles(data, 15)

\* The digit loop of parse_track1 (lines 73-83); bad marks the early return
\* on a non-digit.
RECURSIVE Track1Scan(_, _, _)
Track1Scan(data, pos, result) ==
  IF ~(pos < Len(data)) THEN [pos |-> pos, result |-> result, bad |-> FALSE]
  ELSE LET digit == data[pos + 1]
       IN IF digit = 94 THEN [pos |-> pos, result |-> result, bad |-> FALSE]
          ELSE IF digit < 48 \/ digit > 57
               THEN [pos |-> pos, result |-> << >>, bad |-> TRUE]
               ELSE Track1Scan(data, (pos + 1) % 256,
                               Append(result, digit - 48))

\* parse_track1 accepting one digit more.
parse_track1_wide(data) ==
  IF Len(data) = 0 \/ data[1] # 66 THEN << >>
  ELSE LET s == Track1Scan(data, 1, << >>)
       IN IF s.bad THEN << >>
          ELSE IF s.pos >= Len(data) \/ s.pos > 20 + 1 THEN << >>
          ELSE s.result

parse_track1(data) ==
  IF Len(data) = 0 \/ data[1] # 66 THEN << >>
  ELSE LET s == Track1Scan(data, 1, << >>)
       IN IF s.bad THEN << >>
          ELSE IF s.pos >= Len(data) \/ s.pos > 20 THEN << >>
          ELSE s.result

\* ------------------------------------------------------------------------
\* BER-TLV search (lines 414-454).
\* ------------------------------------------------------------------------

IsTemplate(tag) == tag \in {111, 165, 48908, 97, 119, 112}

\* The header decoded at the start of ber (lines 420-429): tag, length and
\* header length; junk stands for a byte read past the end, oob tells
\* whether one was.
TlvHeader(ber, junk) ==
  LET b0 == At(ber, 0, junk)
      multi == (b0 % 32) = 31
      tag == IF multi THEN (b0 * 256 + At(ber, 1, junk)) % 65536 ELSE b0
      h1 == IF multi THEN 2 ELSE 1
      l0 == At(ber, h1, junk)
      long == l0 >= 128
      len == IF long THEN At(ber, h1 + 1, junk) ELSE l0
      headerLen == IF long THEN h1 + 2 ELSE h1 + 1
  IN [tag |-> tag, len |-> len, headerLen |-> headerLen,
      oob |-> headerLen > Len(ber)]

\* findTag (lines 414-454): the value returned and whether any call of the
\* recursion read outside the buffer it was given.
RECURSIVE findTagRun(_, _, _)
findTagRun(ber_data, tagToFind, junk) ==
  IF Len(ber_data) < 3 THEN [value |-> << >>, oob |-> FALSE]
  ELSE
    LET h == TlvHeader(ber_data, junk)
        fits == Len(ber_data) >= h.len + h.headerLen
        tagValue == Slice(ber_data, h.headerLen, h.headerLen + h.len)
        inner == IF fits /\ h.tag # tagToFind /\ IsTemplate(h.tag)
                 THEN findTagRun(tagValue, tagToFind, junk)
                 ELSE [value |-> << >>, oob |-> FALSE]
        remainingData == Slice(ber_data, h.headerLen + h.len, Len(ber_data))
        rest == findTagRun(remainingData, tagToFind, junk)
    IN IF fits /\ h.tag = tagToFind
       THEN [value |-> tagValue, oob |-> h.oob]
       ELSE IF inner.value # << >>
       THEN [value |-> inner.value, oob |-> h.oob \/ inner.oob]
       ELSE IF Len(ber_data) > h.len + h.headerLen
       THEN [value |-> rest.value, oob |-> h.oob \/ inner.oob \/ rest.oob]
       ELSE [value |-> << >>, oob |-> h.oob \/ inner.oob]

findTag(ber_data, tagToFind, junk) ==
  findTagRun(ber_data, tagToFind, junk).value

\* ------------------------------------------------------------------------
\* Flattening decoder (lines 324-351).
\* ------------------------------------------------------------------------

\* parseTags: the tags inserted into tagMap, in insertion order, and whether
\* any call of the recursion read outside the buffer it was given.  The
\* pointers stored as map values are not modelled: they refer to vectors
\* that are gone when parseTags returns.
RECURSIVE parseTagsRun(_, _)
parseTagsRun(ber_data, junk) ==
  LET b0 == At(ber_data, 0, junk)
      multi == (b0 % 32) = 31
      tag == IF multi THEN (b0 * 256 + At(ber_data, 1, junk)) % 65536 ELSE b0
      h1 == IF multi THEN 2 ELSE 1
      len == At(ber_data, h1, junk)
      headerLen == h1 + 1
      hoob == headerLen > Len(ber_data)
      none == [tags |-> << >>, oob |-> FALSE]
      remainingData == Slice(ber_data, headerLen + len, Len(ber_data))
      rest == IF Len(ber_data) > len + headerLen
              THEN parseTagsRun(remainingData, junk) ELSE none
      fits == Len(ber_data) >= len + headerLen
      tagValue == Slice(ber_data, headerLen, headerLen + len)
      inner == IF fits /\ tag \in {111, 165, 48908, 97}
               THEN parseTagsRun(tagValue, junk) ELSE none
      own == IF fits THEN <<tag>> ELSE << >>
  IN [tags |-> rest.tags \o own \o inner.tags,
      oob |-> hoob \/ rest.oob \/ inner.oob]

\* ------------------------------------------------------------------------
\* PDOL synthesizer (lines 353-412).
\* ------------------------------------------------------------------------

Zeros(n) == [i \in 1..n |-> 0]

\* The switch without the case of the currency code.
PdolValue_nocurrency(tag, len) ==
  CASE tag = 40806 -> <<240, 32, 64, 0>>
    [] tag \in {40706, 40707} -> <<0, 0, 0, 0, 16, 0>>
    [] tag = 40730 -> <<2, 118>>
    [] tag = 154 -> <<35, 17, 37>>
    [] tag = 40759 -> <<181, 67, 255, 137>>
    [] OTHER -> Zeros(len)

\* The switch of lines 369-407.
PdolValue(tag, len) ==
  CASE tag = 40806 -> <<240, 32, 64, 0>>
    [] tag \in {40706, 40707} -> <<0, 0, 0, 0, 16, 0>>
    [] tag = 40730 -> <<2, 118>>
    [] tag = 24362 -> <<9, 120>>
    [] tag = 154 -> <<35, 17, 37>>
    [] tag = 40759 -> <<181, 67, 255, 137>>
    [] OTHER -> Zeros(len)

\* The loop of lines 358-410.  oob: a byte outside the request was read;
\* ub: erase was asked to remove more bytes than the request holds.
RECURSIVE PdolLoop(_, _, _, _)
PdolLoop(pdol, junk, result, oob) ==
  IF ~(Len(pdol) > 1) THEN [result |-> result, oob |-> oob, ub |-> FALSE]
  ELSE
    LET b0 == pdol[1]
        multi == (b0 % 32) = 31
        tag == IF multi THEN (b0 * 256 + pdol[2]) % 65536 ELSE b0
        h1 == IF multi THEN 2 ELSE 1
        len == At(pdol, h1, junk)
        headerLen == h1 + 1
        out == result \o PdolValue(tag, len)
    IN IF headerLen > Len(pdol)
       THEN [result |-> out, oob |-> TRUE, ub |-> TRUE]
       ELSE PdolLoop(Slice(pdol, headerLen, Len(pdol)), junk, out, oob)

constructPdolRun(pdol, junk) ==
  IF Len(pdol) < 2 THEN [result |-> << >>, oob |-> FALSE, ub |-> FALSE]
  ELSE PdolLoop(pdol, junk, << >>, FALSE)

constructPdolData(pdol, junk) == constructPdolRun(pdol, junk).result

\* ------------------------------------------------------------------------
\* The transport and the scripted card.
\* ------------------------------------------------------------------------

\* A well-formed transport response: status byte 0x00, payload, SW 0x9000.
Frame(payload) == <<0>> \o payload \o <<144, 0>>

\* Payloads a card can answer with.
P_AID == <<111, 3, 79, 1, 161>>
P_PLAIN == <<111, 3, 132, 1, 170>>
P_PDOL == <<111, 8, 165, 6, 159, 56, 3, 159, 26, 2>>
P_TRACK2 == <<119, 6, 87, 4, 18, 52, 86, 208>>
P_TRACK2_BAD == <<112, 4, 87, 2, 18, 208>>
P_TRACK2_BAD_TRACK1 == <<112, 10, 87, 2, 18, 208, 86, 4, 66, 49, 50, 94>>
P_TRACK1 == <<112, 6, 86, 4, 66, 49, 50, 94>>
P_TRACK1_BAD_PAN == <<112, 10, 86, 2, 65, 49, 90, 4, 18, 52, 86, 127>>
P_PAN == <<112, 6, 90, 4, 18, 52, 86, 127>>
P_PAN_BAD == <<112, 3, 90, 1, 31>>
P_AFL_ONE == <<119, 6, 148, 4, 8, 1, 2, 0>>
P_AFL_TWO == <<119, 10, 148, 8, 8, 1, 1, 0, 16, 2, 3, 0>>
P_AFL_THREE == <<119, 14, 148, 12, 8, 1, 2, 0, 8, 2, 2, 0, 16, 2, 1, 0>>
P_AFL_SHORT == <<119, 5, 148, 3, 8, 1, 1>>
P_AFL_ODD == <<119, 8, 148, 6, 8, 1, 1, 0, 16, 1>>
P_AFL_WRAP == <<119, 10, 148, 8, 8, 255, 255, 0, 16, 1, 1, 0>>
P_PDOL_BIG == <<111, 7, 165, 5, 159, 56, 2, 193, 254>>

Payloads ==
  {P_AID, P_PLAIN, P_PDOL, P_TRACK2, P_TRACK2_BAD, P_TRACK2_BAD_TRACK1,
   P_TRACK1, P_TRACK1_BAD_PAN, P_PAN, P_PAN_BAD, P_AFL_ONE, P_AFL_TWO,
   P_AFL_THREE, P_AFL_SHORT, P_AFL_ODD}

\* What read_response can deliver: framed payloads, an error status word, a
\* device error, and responses shorter than a status byte plus status word.
Responses ==
  {Frame(p) : p \in Payloads}
    \cup {<<0, 106, 130>>, <<1, 144, 0>>, <<0, 144, 0>>,
          << >>, <<0>>, <<1>>, <<0, 0>>, <<144, 0>>}

\* A card whose PDOL asks for 254 bytes of an unknown tag and whose AFL has an
\* entry with last record 255.
LongResponses ==
  {Frame(P_AID), Frame(P_PDOL_BIG), Frame(P_AFL_WRAP), Frame(P_PLAIN),
   <<0, 106, 130>>}

\* Bytes an out-of-bounds read can come back with.
JunkBytes == {0, 144}

Uids == {<<4, 17>>, <<4, 34>>}

\* ------------------------------------------------------------------------
\* sendAPDU's validation of the bytes read (lines 297-313).  j is the junk
\* behind response[0], response[size-1] and response[size-2] when those
\* indices lie outside the response.
\* ------------------------------------------------------------------------
APDUCheck(raw, j) ==
  LET n == Len(raw)
      first == At(raw, 0, j[1])
      last == At(raw, n - 1, j[2])
      prev == At(raw, n - 2, j[3])
      swBad == last # 0 \/ prev # 144
      oobRead == (n = 0) \/ (first = 0 /\ last = 0 /\ n < 2)
  IN IF first # 0
     THEN [res |-> "fail", oob |-> oobRead, response |-> raw]
     ELSE IF swBad
     THEN [res |-> "fail", oob |-> oobRead, response |-> raw]
     ELSE IF n < 3
     THEN [res |-> "crash", oob |-> oobRead, response |-> raw]
     ELSE [res |-> "ok", oob |-> oobRead, response |-> Slice(raw, 1, n - 2)]

\* ------------------------------------------------------------------------
\* State of one tag read.
\* ------------------------------------------------------------------------
VARIABLES
  pc,        \* position in read_mifare_plus_tag_ / read_mifare_plus_bytes_
  io,        \* position inside sendAPDU: "idle" or "written"
  attempt,   \* which of the nested sendAPDU calls of a step is running
  apdu,      \* the command vector
  response,  \* the response vector
  adf_name,  \* AID found in the PPSE response
  afl,       \* Application File Locator found in the GPO response
  pos,       \* uint8_t index into afl
  sfi,       \* P2 of READ RECORD for the current AFL entry
  start,     \* current record number
  end,       \* last record number of the current AFL entry
  pan,       \* result of the last track parse
  ret_line,  \* source line of the return statement taken, 0 before it
  result,    \* value returned by read_mifare_plus_bytes_
  data,      \* the caller's output vector
  tag,       \* the NfcTag built by read_mifare_plus_tag_
  uid,       \* the uid handed to read_mifare_plus_tag_
  log,       \* every command handed to write_command_, with its outcome
  oob,       \* the last sendAPDU read a byte outside the response
  raw,       \* the bytes read_response delivered last
  xfer,      \* how far the last sendAPDU got with the transport
  inflight,  \* commands written whose exchange has not completed
  call       \* a call of one of the decoders or parsers on its own

vars == <<pc, io, attempt, apdu, response, adf_name, afl, pos, sfi, start,
          end, pan, ret_line, result, data, tag, uid, log, oob, raw, xfer,
          inflight, call>>

\* The locals of read_mifare_plus_bytes_ that the code between two exchanges
\* assigns.
locals == <<attempt, apdu, adf_name, afl, pos, sfi, start, end, pan>>

NoTag == [uid |-> << >>, data |-> << >>, built |-> FALSE]

\* No decoder or parser is being called on its own.
NoCall ==
  [fn |-> "none", arg |-> << >>, target |-> 0, ref |-> << >>, junk |-> 0,
   done |-> FALSE, out |-> << >>, oob |-> FALSE, ub |-> FALSE]

Init ==
  /\ call = NoCall
  /\ pc = "start"
  /\ io = "idle"
  /\ attempt = 1
  /\ apdu = << >>
  /\ response = << >>
  /\ adf_name = << >>
  /\ afl = << >>
  /\ pos = 0
  /\ sfi = 0
  /\ start = 0
  /\ end = 0
  /\ pan = << >>
  /\ ret_line = 0
  /\ result = FALSE
  /\ data = << >>
  /\ tag = NoTag
  /\ uid \in Uids
  /\ log = << >>
  /\ oob = FALSE
  /\ raw = << >>
  /\ xfer = "none"
  /\ inflight = 0

\* ------------------------------------------------------------------------
\* Command builders (lines 110-115, 134-140, 166-173, 230-233).
\* ------------------------------------------------------------------------
PPSE_APDU ==
  <<0, 164, 4, 0, 14, 50, 80, 65, 89, 46, 83, 89, 83, 46, 68, 68, 70, 48,
    49, 0>>

SelectAidApdu(aid) == <<0, 164, 4, 0, Len(aid) % 256>> \o aid \o <<0>>

GpoApdu(pdol_data) ==
  <<128, 168, 0, 0, (Len(pdol_data) + 2) % 256, EMV_TAG_COMMAND,
    Len(pdol_data) % 256>> \o pdol_data \o <<0>>

ReadRecordApdu(rec, p2) == <<0, 178, rec, p2, 0>>

\* SFI byte of an AFL entry (lines 223-224).
SfiOf(b) == (b \div 8) * 8 + 4

\* Commands followed per read; the record loop of an entry whose last
\* record is 255 sends without end.
MaxLog == 10

\* One more nested retry.
MaxAttempts_four == 3 + 1

\* Number of sendAPDU calls nested at lines 143-147 and 192-196.
MaxAttempts == 3

\* The AFL check without the multiple-of-four test.
AflInvalid_short(a) == Len(a) < 4

\* The AFL check of line 215.
AflInvalid(a) == Len(a) < 4 \/ (Len(a) % 4) # 0

\* The loop condition of line 222.  size() - 4 is unsigned: below four bytes
\* it wraps to a value above every uint8_t pos.
AflMore(p, a) == IF Len(a) >= 4 THEN p < Len(a) - 4 ELSE TRUE

\* Return with the parsed PAN reported as success.
ReturnParsed(line) ==
  /\ pc' = "ret"
  /\ ret_line' = line
  /\ result' = (line \in {208, 240, 246, 252})
  /\ data' = IF line \in {240, 246, 252} THEN pan' ELSE data

\* "return false" at the given line.
Return(line) ==
  /\ pc' = "ret"
  /\ ret_line' = line
  /\ result' = FALSE
  /\ UNCHANGED data

Crash ==
  /\ pc' = "crashed"
  /\ UNCHANGED <<ret_line, result, data>>

Goto(to) ==
  /\ pc' = to
  /\ UNCHANGED <<ret_line, result, data>>

\* ------------------------------------------------------------------------
\* read_mifare_plus_bytes_, cut at its sendAPDU calls.  Each After... is the
\* code that runs from the return of one sendAPDU (ok: its return value,
\* resp: the response vector it left) up to the next call or return.
\* ------------------------------------------------------------------------

\* Lines 104-117: the PPSE command is built.
read_mifare_plus_bytes_ ==
  /\ pc = "start"
  /\ apdu' = PPSE_APDU
  /\ Goto("ppse")
  /\ UNCHANGED <<io, attempt, response, adf_name, afl, pos, sfi, start, end,
                 pan, tag, uid, log, oob, raw, xfer, inflight, call>>

\* Lines 118-140 with the PPSE exchange retried like the later steps.
AfterPPSE_retry(ok, resp, junk) ==
  IF ~ok
  THEN IF attempt < 3
       THEN /\ attempt' = attempt + 1
            /\ Goto("ppse")
            /\ UNCHANGED <<apdu, adf_name, afl, pos, sfi, start, end, pan>>
       ELSE Return(119) /\ UNCHANGED locals
  ELSE LET found == findTag(resp, EMV_TAG_AID, junk)
       IN IF found = << >>
          THEN Return(126) /\ UNCHANGED locals
          ELSE /\ adf_name' = found
               /\ apdu' = SelectAidApdu(found)
               /\ attempt' = 1
               /\ Goto("aid")
               /\ UNCHANGED <<afl, pos, sfi, start, end, pan>>

\* Lines 118-140.
AfterPPSE(ok, resp, junk) ==
  IF ~ok
  THEN Return(119) /\ UNCHANGED locals
  ELSE LET found == findTag(resp, EMV_TAG_AID, junk)
       IN IF found = << >>
          THEN Return(126) /\ UNCHANGED locals
          ELSE /\ adf_name' = found
               /\ apdu' = SelectAidApdu(found)
               /\ attempt' = 1
               /\ Goto("aid")
               /\ UNCHANGED <<afl, pos, sfi, start, end, pan>>

\* Lines 143-173.
AfterAID(ok, resp, junk) ==
  IF ~ok
  THEN IF attempt < MaxAttempts
       THEN /\ attempt' = attempt + 1
            /\ Goto("aid")
            /\ UNCHANGED <<apdu, adf_name, afl, pos, sfi, start, end, pan>>
       ELSE Return(149) /\ UNCHANGED locals
  ELSE LET pdol == findTag(resp, EMV_TAG_PDOL, junk)
           run == constructPdolRun(pdol, junk)
       IN IF run.ub
          THEN Crash /\ UNCHANGED locals
          ELSE /\ apdu' = GpoApdu(run.result)
               /\ attempt' = 1
               /\ Goto("gpo")
               /\ UNCHANGED <<adf_name, afl, pos, sfi, start, end, pan>>

\* Lines 192-221.
AfterGPO(ok, resp, junk) ==
  IF ~ok
  THEN IF attempt < MaxAttempts
       THEN /\ attempt' = attempt + 1
            /\ Goto("gpo")
            /\ UNCHANGED <<apdu, adf_name, afl, pos, sfi, start, end, pan>>
       ELSE Return(198) /\ UNCHANGED locals
  ELSE LET track2 == findTag(resp, EMV_TAG_TRACK2, junk)
           found == findTag(resp, EMV_TAG_AFL, junk)
       IN IF Len(track2) > 0
          THEN Return(208) /\ UNCHANGED locals
          ELSE IF AflInvalid(found)
          THEN /\ afl' = found
               /\ Return(217)
               /\ UNCHANGED <<attempt, apdu, adf_name, pos, sfi, start, end,
                              pan>>
          ELSE /\ afl' = found
               /\ pos' = 0
               /\ Goto("scan")
               /\ UNCHANGED <<attempt, apdu, adf_name, sfi, start, end, pan>>

\* Lines 222-227: the head of the AFL loop and the decoding of one entry;
\* line 278 when the loop ends.
AflLoop ==
  /\ pc = "scan"
  /\ IF AflMore(pos, afl)
     THEN \E junk \in JunkBytes :
            /\ sfi' = SfiOf(At(afl, pos, junk))
            /\ start' = At(afl, (pos + 1) % 256, junk)
            /\ end' = At(afl, (pos + 2) % 256, junk)
            /\ pos' = (pos + 4) % 256
            /\ Goto("records")
            /\ UNCHANGED <<attempt, apdu, adf_name, afl, pan>>
     ELSE Return(278) /\ UNCHANGED locals
  /\ UNCHANGED <<io, response, tag, uid, log, oob, raw, xfer, inflight, call>>

\* Lines 229-233: the head of the record loop and the READ RECORD command.
RecordLoop ==
  /\ pc = "records"
  /\ IF start <= end
     THEN /\ apdu' = ReadRecordApdu(start, sfi)
          /\ Goto("rec")
     ELSE /\ Goto("scan")
          /\ UNCHANGED apdu
  /\ UNCHANGED <<io, attempt, response, adf_name, afl, pos, sfi, start, end,
                 pan, tag, uid, log, oob, raw, xfer, inflight, call>>

\* Lines 235-259 with a failed READ RECORD sent again.
AfterRec_retry(ok, resp, junk) ==
  LET track2 == findTag(resp, EMV_TAG_TRACK2, junk)
      track1 == findTag(resp, EMV_TAG_TRACK1, junk)
      plain == findTag(resp, EMV_TAG_PAN, junk)
      next == /\ start' = (start + 1) % 256
              /\ Goto("records")
  IN IF ~ok
     THEN /\ Goto("rec")
          /\ UNCHANGED locals
     ELSE IF Len(track2) > 0
     THEN /\ pan' = parse_track2(track2)
          /\ Return(240)
          /\ UNCHANGED <<attempt, apdu, adf_name, afl, pos, sfi, start, end>>
     ELSE IF Len(track1) > 0
     THEN /\ pan' = parse_track1(track1)
          /\ Return(246)
          /\ UNCHANGED <<attempt, apdu, adf_name, afl, pos, sfi, start, end>>
     ELSE IF Len(plain) > 0
     THEN /\ pan' = parse_pan(plain)
          /\ Return(252)
          /\ UNCHANGED <<attempt, apdu, adf_name, afl, pos, sfi, start, end>>
     ELSE /\ pan' = plain
          /\ next
          /\ UNCHANGED <<attempt, apdu, adf_name, afl, pos, sfi, end>>

\* Lines 235-259.
AfterRec(ok, resp, junk) ==
  LET track2 == findTag(resp, EMV_TAG_TRACK2, junk)
      track1 == findTag(resp, EMV_TAG_TRACK1, junk)
      plain == findTag(resp, EMV_TAG_PAN, junk)
      next == /\ start' = (start + 1) % 256
              /\ Goto("records")
  IN IF ~ok
     THEN next /\ UNCHANGED <<attempt, apdu, adf_name, afl, pos, sfi, end, pan>>
     ELSE IF Len(track2) > 0
     THEN /\ pan' = parse_track2(track2)
          /\ Return(240)
          /\ UNCHANGED <<attempt, apdu, adf_name, afl, pos, sfi, start, end>>
     ELSE IF Len(track1) > 0
     THEN /\ pan' = parse_track1(track1)
          /\ Return(246)
          /\ UNCHANGED <<attempt, apdu, adf_name, afl, pos, sfi, start, end>>
     ELSE IF Len(plain) > 0
     THEN /\ pan' = parse_pan(plain)
          /\ Return(252)
          /\ UNCHANGED <<attempt, apdu, adf_name, afl, pos, sfi, start, end>>
     ELSE /\ pan' = plain
          /\ next
          /\ UNCHANGED <<attempt, apdu, adf_name, afl, pos, sfi, end>>

\* The caller's code after a sendAPDU call returns.
AfterExchange(ok, resp, junk) ==
  CASE pc = "ppse" -> AfterPPSE(ok, resp, junk)
    [] pc = "aid" -> AfterAID(ok, resp, junk)
    [] pc = "gpo" -> AfterGPO(ok, resp, junk)
    [] pc = "rec" -> AfterRec(ok, resp, junk)

Exchanging == pc \in {"ppse", "aid", "gpo", "rec"}

\* ------------------------------------------------------------------------
\* sendAPDU (lines 284-314), cut between write_command_ and read_response.
\* ------------------------------------------------------------------------
LogEntry(res) == [step |-> pc, cmd |-> apdu, res |-> res, pos |-> pos]

SetLast(res) == [log EXCEPT ![Len(log)].res = res]

\* Lines 286-295 without waiting for the previous exchange to complete.
sendAPDU_write_async ==
  /\ Exchanging
  /\ Len(log) < MaxLog
  /\ \E wrote \in BOOLEAN :
       IF wrote
       THEN /\ io' = "written"
            /\ log' = Append(log, LogEntry("pending"))
            /\ inflight' = inflight + 1
            /\ oob' = FALSE
            /\ xfer' = "written"
            /\ UNCHANGED <<pc, ret_line, result, data, locals, response>>
       ELSE /\ io' = "idle"
            /\ log' = Append(log, LogEntry("fail"))
            /\ oob' = FALSE
            /\ xfer' = "write_failed"
            /\ UNCHANGED <<inflight, response>>
            /\ AfterExchange(FALSE, response, 0)
  /\ UNCHANGED <<tag, uid, raw, call>>

\* Lines 286-295: the command is handed to write_command_, which fails or
\* succeeds.
sendAPDU_write ==
  /\ Exchanging
  /\ io = "idle"
  /\ Len(log) < MaxLog
  /\ \E wrote \in BOOLEAN :
       IF wrote
       THEN /\ io' = "written"
            /\ log' = Append(log, LogEntry("pending"))
            /\ inflight' = inflight + 1
            /\ oob' = FALSE
            /\ xfer' = "written"
            /\ UNCHANGED <<pc, ret_line, result, data, locals, response>>
       ELSE /\ io' = "idle"
            /\ log' = Append(log, LogEntry("fail"))
            /\ oob' = FALSE
            /\ xfer' = "write_failed"
            /\ UNCHANGED <<inflight, response>>
            /\ AfterExchange(FALSE, response, 0)
  /\ UNCHANGED <<tag, uid, raw, call>>

\* Lines 297-313: read_response fails, or delivers one of the given
\* responses, which is checked and unwrapped.
ReadFrom(delivered) ==
  /\ Exchanging
  /\ io = "written"
  /\ io' = "idle"
  /\ inflight' = inflight - 1
  /\ \/ /\ log' = SetLast("fail")
        /\ xfer' = "read_failed"
        /\ UNCHANGED <<response, oob, raw>>
        /\ AfterExchange(FALSE, response, 0)
     \/ \E r \in delivered, j \in [1..3 -> JunkBytes] :
          LET c == APDUCheck(r, j)
          IN /\ response' = c.response
             /\ oob' = c.oob
             /\ raw' = r
             /\ xfer' = "read"
             /\ log' = SetLast(c.res)
             /\ IF c.res = "crash"
                THEN Crash /\ UNCHANGED locals
                ELSE AfterExchange(c.res = "ok", c.response, j[1])
  /\ UNCHANGED <<tag, uid, call>>

sendAPDU_read == ReadFrom(Responses)

\* The same exchange with the card of LongResponses.
sendAPDU_read_long == ReadFrom(LongResponses)

\* ------------------------------------------------------------------------
\* read_mifare_plus_tag_ (lines 93-102), after read_mifare_plus_bytes_
\* has returned.
\* ------------------------------------------------------------------------
read_mifare_plus_tag_ ==
  /\ pc = "ret"
  /\ pc' = "done"
  /\ tag' = IF ~result
            THEN [uid |-> uid, data |-> << >>, built |-> TRUE]
            ELSE [uid |-> uid, data |-> data, built |-> TRUE]
  /\ UNCHANGED <<io, locals, response, ret_line, result, data, uid, log, oob,
                 raw, xfer, inflight, call>>

Next ==
  \/ read_mifare_plus_bytes_
  \/ sendAPDU_write
  \/ sendAPDU_read
  \/ AflLoop
  \/ RecordLoop
  \/ read_mifare_plus_tag_

Spec == Init /\ [][Next]_vars

\* The read against the card of LongResponses.
LongNext ==
  \/ read_mifare_plus_bytes_
  \/ sendAPDU_write
  \/ sendAPDU_read_long
  \/ AflLoop
  \/ RecordLoop
  \/ read_mifare_plus_tag_

LongSpec == Init /\ [][LongNext]_vars

\* ------------------------------------------------------------------------
\* Vocabulary of the properties.
\* ------------------------------------------------------------------------
Returned == pc \in {"ret", "done"}

LastEntry == log[Len(log)]

\* The exchange of the given step was the last one and it succeeded, so
\* response still holds its payload.
LastOk(step) ==
  /\ Len(log) > 0
  /\ LastEntry.step = step
  /\ LastEntry.res = "ok"

IsReadRecord(cmd) == Len(cmd) = 5 /\ cmd[1] = 0 /\ cmd[2] = 178

NoReadRecord == \A i \in 1..Len(log) : ~IsReadRecord(log[i].cmd)

StepEntries(step) == {i \in 1..Len(log) : log[i].step = step}

\* C1: when PPSE, SELECT AID and GPO succeed and the GPO response directly
\* holds a Track 2 field that parses to a PAN, the read reports success,
\* hands that PAN to its caller and has sent no READ RECORD.
C1_Track2Returned ==
  LET track2 == findTag(response, EMV_TAG_TRACK2, 0)
  IN (Returned /\ LastOk("gpo") /\ parse_track2(track2) # << >>)
       => /\ result = TRUE
          /\ data = parse_track2(track2)
          /\ NoReadRecord

\* C2: in the AFL scan the read concludes on a record only when the parse of
\* the field found in it succeeded; a field that fails its validation does
\* not end the read.
C2_ConcludesOnlyOnParse ==
  (Returned /\ ret_line \in {240, 246, 252}) => pan # << >>

\* C3: once the scan of a valid AFL has run to its end, a READ RECORD with
\* P1 = r and P2 = (b0 & 0xF8) | 0x04 has been sent for every record r of
\* every four-byte entry, the last entry included.
C3_EveryEntryScanned ==
  (Returned /\ ret_line = 278)
    => \A e \in 1..(Len(afl) \div 4) :
         \A r \in afl[4 * e - 2]..afl[4 * e - 1] :
           \E i \in 1..Len(log) :
             log[i].cmd = <<0, 178, r, (afl[4 * e - 3] \div 8) * 8 + 4, 0>>

\* C4: read_mifare_plus_bytes_ never reports success and never writes the
\* caller's data, also when a PAN was parsed; the tag is built from the uid
\* alone.
C4_AlwaysFailure ==
  /\ result = FALSE
  /\ data = << >>
  /\ tag.built => (tag.uid = uid /\ tag.data = << >>)

\* A read that parsed a PAN from a record, returned and had its tag built.
C4_Witness ==
  /\ pc = "done"
  /\ ret_line = 240
  /\ pan = <<1, 2, 3, 4, 5, 6>>
  /\ tag.built

Rank(step) ==
  CASE step = "ppse" -> 1 [] step = "aid" -> 2 [] step = "gpo" -> 3
    [] step = "rec" -> 4

LaterEntries(step) == {i \in 1..Len(log) : Rank(log[i].step) > Rank(step)}

AllFailed(E) == \A i \in E : log[i].res = "fail"

\* What both readings of the retry rule share: at most 3 attempts, the same
\* bytes each time, no attempt after a successful one.
RetryShape(step) ==
  LET E == StepEntries(step)
  IN /\ Cardinality(E) <= 3
     /\ \A i, j \in E : log[i].cmd = log[j].cmd
     /\ \A i, j \in E : i < j => log[i].res = "fail"

\* C5 as stated: SELECT AID and GPO are attempted at most 3 times with the
\* same bytes, stop at the first success, and the read fails with no command
\* of a later step sent exactly when all 3 attempts of the step failed.
C5_RetryExactly ==
  \A step \in {"aid", "gpo"} :
    LET E == StepEntries(step)
    IN /\ RetryShape(step)
       /\ (Returned /\ E # {})
            => ((result = FALSE /\ LaterEntries(step) = {})
                  <=> (Cardinality(E) = 3 /\ AllFailed(E)))

\* C5 amended: at most 3 attempts with the same bytes, stopping at the first
\* success and continuing with its response; when all 3 attempts fail the
\* read fails at that step with no later command sent.  Only for SELECT AID
\* does a read without later commands imply that all 3 attempts failed.
C5_Retry ==
  /\ \A step \in {"aid", "gpo"} :
       LET E == StepEntries(step)
       IN /\ RetryShape(step)
          /\ (Returned /\ Cardinality(E) = 3 /\ AllFailed(E))
               => /\ result = FALSE
                  /\ LaterEntries(step) = {}
                  /\ ret_line = (IF step = "aid" THEN 149 ELSE 198)
  /\ (Returned /\ StepEntries("aid") # {} /\ LaterEntries("aid") = {})
       => (Cardinality(StepEntries("aid")) = 3 /\ AllFailed(StepEntries("aid")))
  /\ (LastOk("aid") /\ pc = "gpo")
       => apdu = GpoApdu(constructPdolData(findTag(response, EMV_TAG_PDOL, 0), 0))
  /\ (LastOk("gpo") /\ pc = "scan")
       => afl = findTag(response, EMV_TAG_AFL, 0)

\* SELECT AID succeeded at its third attempt with a PDOL and all three GPO
\* attempts, built from that PDOL, failed.
C5_Witness ==
  /\ Returned
  /\ Len(log) = 7
  /\ log[2].res = "fail" /\ log[3].res = "fail" /\ log[4].res = "ok"
  /\ log[4].step = "aid"
  /\ \A i \in 5..7 : log[i].step = "gpo" /\ log[i].res = "fail"
  /\ log[5].cmd = <<128, 168, 0, 0, 4, 131, 2, 2, 118, 0>>
  /\ ret_line = 198

\* C6: SELECT PPSE is sent exactly once and never retried; when its exchange
\* fails or its response holds no AID, the read fails and nothing else is
\* sent.
C6_PpseOnce ==
  /\ Cardinality(StepEntries("ppse")) <= 1
  /\ Len(log) > 0 => (log[1].step = "ppse" /\ log[1].cmd = PPSE_APDU)
  /\ (Len(log) > 0 /\ log[1].res = "fail")
       => (Len(log) = 1 /\ Returned /\ result = FALSE)
  /\ (Len(log) = 1 /\ log[1].res = "ok"
        /\ findTag(response, EMV_TAG_AID, 0) = << >>)
       => (Returned /\ result = FALSE)
  /\ Len(log) > 1
       => (log[1].res = "ok" /\ adf_name # << >>
             /\ log[2].cmd = <<0, 164, 4, 0, Len(adf_name)>> \o adf_name \o <<0>>)

\* The PPSE exchange succeeded, its response held no AID, the read is over.
C6_Witness ==
  /\ pc = "done"
  /\ Len(log) = 1
  /\ log[1].res = "ok"
  /\ response = P_PLAIN
  /\ ret_line = 126

\* The READ RECORD for the first record of the AFL entry that ends at p.
FirstRecordOf(p) ==
  <<0, 178, afl[p - 2], (afl[p - 3] \div 8) * 8 + 4, 0>>

FailedRecords ==
  {i \in 1..Len(log) : log[i].step = "rec" /\ log[i].res = "fail"}

\* A failed READ RECORD ends the read only through the end of the scan.
FailureNotFatal ==
  (Returned /\ Len(log) > 0 /\ LastEntry.step = "rec"
     /\ LastEntry.res = "fail") => ret_line = 278

C8_ProtocolOrder ==
  /\ \A i, j \in 1..Len(log) :
       i < j => Rank(log[i].step) <= Rank(log[j].step)
  /\ \A j \in 1..Len(log) :
       /\ log[j].step = "ppse" => log[j].cmd = PPSE_APDU
       /\ log[j].step = "aid"
            => /\ log[j].cmd[2] = 164
               /\ adf_name # << >>
               /\ \E i \in 1..(j - 1) :
                    log[i].step = "ppse" /\ log[i].res = "ok"
       /\ log[j].step = "gpo"
            => /\ log[j].cmd[2] = 168
               /\ \E i \in 1..(j - 1) :
                    log[i].step = "aid" /\ log[i].res = "ok"
       /\ log[j].step = "rec"
            => /\ IsReadRecord(log[j].cmd)
               /\ \E i \in 1..(j - 1) :
                    log[i].step = "gpo" /\ log[i].res = "ok"
  /\ \A i \in 1..(Len(log) - 1) : log[i].res # "pending"
  /\ inflight \in {0, 1}
  /\ (inflight = 1) <=> (Len(log) > 0 /\ LastEntry.res = "pending")

\* A READ RECORD is in flight after all three earlier steps.
C8_Witness ==
  /\ Len(log) = 4
  /\ LastEntry.step = "rec"
  /\ LastEntry.res = "pending"
  /\ inflight = 1

\* C9: after a successful GPO without Track 2, an AFL that is absent,
\* shorter than 4 bytes or not a multiple of 4 bytes long makes the read
\* fail with no READ RECORD sent.
C9_BadAflFails ==
  LET track2 == findTag(response, EMV_TAG_TRACK2, 0)
      found == findTag(response, EMV_TAG_AFL, 0)
  IN (LastOk("gpo") /\ Len(track2) = 0
        /\ (Len(found) < 4 \/ Len(found) % 4 # 0))
       => /\ Returned
          /\ result = FALSE
          /\ ret_line = 217
          /\ NoReadRecord

\* The GPO response carried a six-byte AFL and the read is over.
C9_Witness ==
  /\ pc = "done"
  /\ LastOk("gpo")
  /\ response = P_AFL_ODD
  /\ afl = <<8, 1, 1, 0, 16, 1>>

\* C10: sendAPDU succeeds exactly when the write and the read succeed and
\* the response has at least 3 bytes, first byte 0x00 and last bytes 0x90
\* 0x00; the payload is the response without those three bytes; a response
\* of 0, 1 or 2 bytes is a failure for which no byte outside it is read.
C10_ExchangeCheck ==
  LET n == Len(raw)
  IN (Len(log) > 0 /\ LastEntry.res # "pending")
       => /\ (LastEntry.res = "ok")
               <=> (xfer = "read" /\ n >= 3 /\ raw[1] = 0
                      /\ raw[n - 1] = 144 /\ raw[n] = 0)
          /\ LastEntry.res = "ok" => response = SubSeq(raw, 2, n - 2)
          /\ (xfer = "read" /\ n < 3) => (LastEntry.res = "fail" /\ ~oob)

\* C18: the record loop of an AFL entry ends once the record numbered
\* `last` has been requested: no READ RECORD of that entry follows it, so a
\* read sends finitely many commands, also for last = 255.
C18_RecordLoopEnds ==
  \A i, j \in 1..Len(log) :
    (i < j /\ log[i].step = "rec" /\ log[j].step = "rec"
       /\ log[i].pos = log[j].pos)
      => log[i].cmd[3] # afl[log[i].pos - 1]

\* C19: in every GPO command sent, Lc is the number of bytes between it and
\* Le, and the byte after tag 0x83 is the number of PDOL data bytes; neither
\* wraps modulo 256.
C19_GpoLengths ==
  \A i \in 1..Len(log) :
    log[i].step = "gpo"
      => /\ log[i].cmd[5] = Len(log[i].cmd) - 6
         /\ log[i].cmd[6] = 131
         /\ log[i].cmd[7] = Len(log[i].cmd) - 8

\* ------------------------------------------------------------------------
\* The decoders and parsers called on their own.  call.arg is the buffer,
\* call.target the tag or terminator asked for, call.ref what the buffer was
\* built from (empty for a buffer of arbitrary bytes).
\* ------------------------------------------------------------------------
readvars == <<pc, io, attempt, apdu, response, adf_name, afl, pos, sfi, start,
              end, pan, ret_line, result, data, tag, uid, log, oob, raw, xfer,
              inflight>>

\* No read is running.
ReadIdle ==
  /\ pc = "none"
  /\ io = "idle"
  /\ attempt = 1
  /\ apdu = << >>
  /\ response = << >>
  /\ adf_name = << >>
  /\ afl = << >>
  /\ pos = 0
  /\ sfi = 0
  /\ start = 0
  /\ end = 0
  /\ pan = << >>
  /\ ret_line = 0
  /\ result = FALSE
  /\ data = << >>
  /\ tag = NoTag
  /\ uid = << >>
  /\ log = << >>
  /\ oob = FALSE
  /\ raw = << >>
  /\ xfer = "none"
  /\ inflight = 0

CallOf(fn, arg, target, ref) ==
  [fn |-> fn, arg |-> arg, target |-> target, ref |-> ref, junk |-> 0,
   done |-> FALSE, out |-> << >>, oob |-> FALSE, ub |-> FALSE]

\* All byte sequences of at most n bytes over the given bytes.
BuffersUpTo(n, bytes) == UNION {[1..k -> bytes] : k \in 0..n}

RECURSIVE Flatten(_)
Flatten(seqs) ==
  IF seqs = << >> THEN << >> ELSE Head(seqs) \o Flatten(Tail(seqs))

\* ------------------------------------------------------------------------
\* BER-TLV buffers.
\* ------------------------------------------------------------------------

\* Longest buffer of arbitrary bytes and most children of a template.
MaxRawLen == 4
MaxKids == 2

\* 0x4F, 0x6F (template), 0x9F (two-byte tag), 0x82 (long-form length).
RawBytes == {0, 1, 79, 111, 159, 130}

TlvTargets == {79, 40760}

TagBytes(t) == IF t > 255 THEN <<t \div 256, t % 256>> ELSE <<t>>

\* The encoding of one node; long: the length is written as 0x81 len.
EncodeNode(t, val, long) ==
  TagBytes(t) \o (IF long THEN <<129, Len(val)>> ELSE <<Len(val)>>) \o val

\* A structure is its encoding together with its nodes in depth-first order.
Prim(t, val, long) ==
  [enc |-> EncodeNode(t, val, long), nodes |-> <<[tag |-> t, val |-> val]>>]

Tmpl(t, kids) ==
  LET val == Flatten([i \in 1..Len(kids) |-> kids[i].enc])
  IN [enc |-> EncodeNode(t, val, FALSE),
      nodes |-> <<[tag |-> t, val |-> val]>>
                  \o Flatten([i \in 1..Len(kids) |-> kids[i].nodes])]

Siblings(a, b) == [enc |-> a.enc \o b.enc, nodes |-> a.nodes \o b.nodes]

Prims ==
  {Prim(79, <<161>>, FALSE), Prim(79, <<162, 163>>, TRUE),
   Prim(79, << >>, FALSE), Prim(90, <<17>>, FALSE), Prim(90, << >>, FALSE),
   Prim(40760, <<1>>, FALSE)}

TemplatesOf(n) ==
  {Tmpl(t, kids) : t \in {111, 48908}, kids \in BuffersUpTo(n, Prims)}

Nested ==
  {Tmpl(119, <<x>>) : x \in TemplatesOf(1)}
    \cup {Tmpl(119, <<x, y>>) : x \in TemplatesOf(1), y \in Prims}

StructuresOf(kids) ==
  LET first == Prims \cup TemplatesOf(kids) \cup Nested
      second == Prims \cup TemplatesOf(1)
  IN first \cup {Siblings(x, y) : x \in first, y \in second}

TlvCalls(rawLen, kids) ==
  {CallOf("findTag", b, t, << >>) :
     b \in BuffersUpTo(rawLen, RawBytes), t \in TlvTargets}
    \cup {CallOf("parseTags", b, 0, << >>) :
            b \in BuffersUpTo(rawLen, RawBytes)}
    \cup {CallOf("findTag", x.enc, t, x.nodes) :
            x \in StructuresOf(kids), t \in TlvTargets}

TlvInit == ReadIdle /\ call \in TlvCalls(MaxRawLen, MaxKids)

CallFindTag ==
  /\ call.fn = "findTag"
  /\ ~call.done
  /\ \E j \in JunkBytes :
       LET r == findTagRun(call.arg, call.target, j)
       IN call' = [call EXCEPT !.done = TRUE, !.junk = j, !.out = r.value,
                               !.oob = r.oob]
  /\ UNCHANGED readvars

CallParseTags ==
  /\ call.fn = "parseTags"
  /\ ~call.done
  /\ \E j \in JunkBytes :
       LET r == parseTagsRun(call.arg, j)
       IN call' = [call EXCEPT !.done = TRUE, !.junk = j, !.out = r.tags,
                               !.oob = r.oob]
  /\ UNCHANGED readvars

TlvNext == CallFindTag \/ CallParseTags

TlvSpec == TlvInit /\ [][TlvNext]_vars

\* C11: findTag and parseTags, with their recursive calls, read only
\* indices inside the buffer they are given.
C11_ReadsInside ==
  (call.fn \in {"findTag", "parseTags"} /\ call.done) => ~call.oob

\* The value of the first node, in depth-first order, whose tag is t.
RECURSIVE FirstMatch(_, _)
FirstMatch(nodes, t) ==
  IF nodes = << >> THEN << >>
  ELSE IF Head(nodes).tag = t THEN Head(nodes).val
  ELSE FirstMatch(Tail(nodes), t)

\* C12: on a well-formed structure findTag returns the value of the first
\* node, in depth-first order, whose tag equals the target, and empty when
\* none has it.
C12_FirstMatch ==
  (call.fn = "findTag" /\ call.done /\ call.ref # << >>)
    => call.out = FirstMatch(call.ref, call.target)

\* C13: a node whose length byte is 0x82 or above is not decoded: no value
\* is returned for it.
C13_LongLengthFails ==
  LET a == call.arg
  IN (call.fn = "findTag" /\ call.done /\ Len(a) >= 3 /\ a[1] = call.target
        /\ a[2] >= 130 /\ Len(a) = 3 + a[3])
       => call.out = << >>

\* ------------------------------------------------------------------------
\* Track 2, PAN and Track 1 buffers.
\* ------------------------------------------------------------------------

\* Most bytes before the terminator byte of a nibble-packed buffer and most
\* digit bytes of a Track 1 buffer.
MaxNibBytes == 12
MaxT1Digits == 21

\* The Track 2 record of a card with PAN 4400664987366029.
TRACK2_EXAMPLE == <<68, 0, 102, 73, 135, 54, 96, 41, 210>>

\* n bytes 0x12, then possibly a byte with a nibble above 9, then possibly
\* a byte holding a terminator nibble (D or F, high or low), then a tail.
NibbleBuffers ==
  {[i \in 1..n |-> 18] \o mid \o term \o tail :
     n \in 0..MaxNibBytes,
     mid \in {<< >>, <<26>>},
     term \in {<< >>, <<210>>, <<29>>, <<31>>, <<241>>},
     tail \in {<< >>, <<52>>}}
    \cup {TRACK2_EXAMPLE}

\* Optional format code, n digit bytes, possibly a non-digit, possibly the
\* separator '^', then a tail.
Track1Buffers ==
  {code \o [i \in 1..n |-> 48 + (i % 10)] \o mid \o sep \o tail :
     code \in {<<66>>, <<65>>, << >>},
     n \in 0..MaxT1Digits,
     mid \in {<< >>, <<58>>, <<47>>, <<32>>},
     sep \in {<<94>>, << >>},
     tail \in {<< >>, <<49>>}}

TrackCalls ==
  {CallOf(fn, b, 0, << >>) :
     fn \in {"parse_track2", "parse_pan"}, b \in NibbleBuffers}
    \cup {CallOf("parse_track1", b, 0, << >>) : b \in Track1Buffers}

TrackInit == ReadIdle /\ call \in TrackCalls

CallParseTrack2 ==
  /\ call.fn = "parse_track2"
  /\ ~call.done
  /\ call' = [call EXCEPT !.done = TRUE, !.out = parse_track2(call.arg)]
  /\ UNCHANGED readvars

CallParsePan ==
  /\ call.fn = "parse_pan"
  /\ ~call.done
  /\ call' = [call EXCEPT !.done = TRUE, !.out = parse_pan(call.arg)]
  /\ UNCHANGED readvars

CallParseTrack1 ==
  /\ call.fn = "parse_track1"
  /\ ~call.done
  /\ call' = [call EXCEPT !.done = TRUE, !.out = parse_track1(call.arg)]
  /\ UNCHANGED readvars

TrackNext == CallParseTrack2 \/ CallParsePan \/ CallParseTrack1

TrackSpec == TrackInit /\ [][TrackNext]_vars

\* The nibbles of a buffer, high before low.
NibblesOf(b) == [i \in 1..(2 * Len(b)) |->
                   IF i % 2 = 1 THEN b[(i + 1) \div 2] \div 16
                   ELSE b[i \div 2] % 16]

\* What a nibble-packed buffer holds for terminator t: the nibbles before
\* the first t when it lies in a byte at offset 3..10, otherwise nothing.
NibblesBefore(b, t) ==
  LET nib == NibblesOf(b)
      at == {i \in 1..Len(nib) : nib[i] = t}
  IN IF at = {} THEN << >>
     ELSE LET first == CHOOSE i \in at : \A k \in at : i <= k
              offset == (first - 1) \div 2
          IN IF offset >= 3 /\ offset <= 10 THEN SubSeq(nib, 1, first - 1)
             ELSE << >>

\* C14: parse_nibbles returns the nibbles before the first terminator
\* nibble when it lies in a byte at offset 3..10 and empty in every other
\* case, a buffer without terminator included; the Track 2 example gives
\* the sixteen digits 4400664987366029.
C14_NibblesBeforeTerminator ==
  /\ (call.fn = "parse_track2" /\ call.done)
       => call.out = NibblesBefore(call.arg, 13)
  /\ (call.fn = "parse_pan" /\ call.done)
       => call.out = NibblesBefore(call.arg, 15)
  /\ (call.fn = "parse_track2" /\ call.done /\ call.arg = TRACK2_EXAMPLE)
       => call.out = <<4, 4, 0, 0, 6, 6, 4, 9, 8, 7, 3, 6, 6, 0, 2, 9>>

\* C15: every element of a result of parse_track2, parse_pan or
\* parse_track1 is a decimal digit.
C15_DigitsOnly ==
  (call.fn \in {"parse_track2", "parse_pan", "parse_track1"} /\ call.done)
    => \A i \in 1..Len(call.out) : call.out[i] \in 0..9

\* What a Track 1 buffer holds when at most limit digit bytes may precede
\* the separator: the digits between the leading 'B' and the first '^'.
Track1Digits(b, limit) ==
  LET seps == {c \in 2..Len(b) :
                 /\ b[c] = 94
                 /\ \A i \in 2..(c - 1) : b[i] \in 48..57}
  IN IF Len(b) = 0 \/ b[1] # 66 \/ seps = {} THEN << >>
     ELSE LET c == CHOOSE x \in seps : TRUE
          IN IF c - 2 > limit THEN << >>
             ELSE [i \in 1..(c - 2) |-> b[i + 1] - 48]

\* C16 as stated: parse_track1 returns the digits between 'B' and the
\* first '^' exactly when at most 20 digit bytes precede the '^', and
\* empty otherwise.
C16_Track1Twenty ==
  (call.fn = "parse_track1" /\ call.done)
    => call.out = Track1Digits(call.arg, 20)

\* C16: parse_track1 returns the digits between 'B' and the first '^'
\* exactly when the buffer starts with 'B', a '^' is present, every byte
\* between them is a digit and at most 19 digit bytes precede the '^'; it
\* returns empty otherwise.
C16_Track1Nineteen ==
  (call.fn = "parse_track1" /\ call.done)
    => call.out = Track1Digits(call.arg, 19)

\* A buffer with nineteen digits was accepted.
C16_Witness ==
  call.fn = "parse_track1" /\ call.done /\ Len(call.out) = 19

\* ------------------------------------------------------------------------
\* PDOL requests.
\* ------------------------------------------------------------------------

\* Most headers of a request and longest request of arbitrary bytes.
MaxHeaders == 2
MaxPdolRaw == 3

\* The seven tags of the switch, and 0xC1 and 0x9F35, which it does not
\* know.
PdolTags == {40806, 40706, 40707, 40730, 24362, 154, 40759, 193, 40757}

PdolLengths == {0, 2, 3}

PdolHeaders == [tag : PdolTags, len : PdolLengths]

EncodeHeaders(hs) ==
  Flatten([i \in 1..Len(hs) |-> TagBytes(hs[i].tag) \o <<hs[i].len>>])

\* 0x9F, 0x66, 0x02, 0xC1.
PdolRawBytes == {159, 102, 2, 193}

PdolCalls(headers, rawLen) ==
  {CallOf("constructPdolData", EncodeHeaders(hs), 0, hs) :
     hs \in BuffersUpTo(headers, PdolHeaders)}
    \cup {CallOf("constructPdolData", b, 0, << >>) :
            b \in BuffersUpTo(rawLen, PdolRawBytes)}

PdolInit == ReadIdle /\ call \in PdolCalls(MaxHeaders, MaxPdolRaw)

CallConstructPdolData ==
  /\ call.fn = "constructPdolData"
  /\ ~call.done
  /\ \E j \in JunkBytes :
       LET r == constructPdolRun(call.arg, j)
       IN call' = [call EXCEPT !.done = TRUE, !.junk = j, !.out = r.result,
                               !.oob = r.oob, !.ub = r.ub]
  /\ UNCHANGED readvars

PdolNext == CallConstructPdolData

PdolSpec == PdolInit /\ [][PdolNext]_vars

\* The value the terminal answers a header with.
PdolTable(h) ==
  IF h.tag = 40806 THEN <<240, 32, 64, 0>>
  ELSE IF h.tag = 40706 \/ h.tag = 40707 THEN <<0, 0, 0, 0, 16, 0>>
  ELSE IF h.tag = 40730 THEN <<2, 118>>
  ELSE IF h.tag = 24362 THEN <<9, 120>>
  ELSE IF h.tag = 154 THEN <<35, 17, 37>>
  ELSE IF h.tag = 40759 THEN <<181, 67, 255, 137>>
  ELSE [i \in 1..h.len |-> 0]

\* C17: constructPdolData returns, in request order, one value per header
\* of the request: the constant of the table for the seven known tags and
\* as many zero bytes as the header asks for any other tag; a request of
\* fewer than 2 bytes gives an empty result.
C17_PdolValues ==
  (call.fn = "constructPdolData" /\ call.done)
    => /\ call.ref # << >>
            => call.out
                 = Flatten([i \in 1..Len(call.ref) |-> PdolTable(call.ref[i])])
       /\ Len(call.arg) < 2 => call.out = << >>

\* A request for the country code and three bytes of an unknown tag was
\* answered with 02 76 00 00 00.
C17_Witness ==
  /\ call.fn = "constructPdolData"
  /\ call.done
  /\ call.arg = <<159, 26, 2, 193, 3>>
  /\ call.out = <<2, 118, 0, 0, 0>>

\* C20: constructPdolData reads only bytes inside the request and erases
\* only bytes that exist, whatever the request.
C20_PdolInside ==
  (call.fn = "constructPdolData" /\ call.done) => (~call.oob /\ ~call.ub)

====
